---- MODULE Spec2Model ----
(***************************************************************************)
(* Model of the streaming structural parser of src/src/parser.rs.          *)
(*                                                                         *)
(* The parser is an iterator: every call of Parser::next is one step.  The *)
(* lexer (super::lexer) is the token source: a lazy sequence of tokens or  *)
(* lex errors that ends by returning None.  Its content is fixed when the  *)
(* parser is constructed, so Init draws it from all bounded sequences.     *)
(***************************************************************************)
EXTENDS Integers, Sequences, FiniteSets

\* Bounds of the model.
MaxLen == 6         \* longest token sequence the lexer is given
MaxNonePulls == 1   \* pulls that are still made once the parser has ended

VARIABLES
    input,      \* what the lexer will produce: a sequence of Ok(token) / Err(error)
    context,    \* Parser.context : Vec<ParseContext>, top of the stack last
    ended,      \* Parser.ended
    lexer,      \* Parser.lexer : results read, position, calls of Lexer::next
    stream      \* history: everything Parser::next has returned so far

vars == <<input, context, ended, lexer, stream>>

----------------------------------------------------------------------------
\* Option and Result of the Rust standard library.
None == [tag |-> "None"]
Some(v) == [tag |-> "Some", val |-> v]
Ok(v) == [tag |-> "Ok", val |-> v]
Err(e) == [tag |-> "Err", val |-> e]

\* LexToken (super::lexer): the parser tells identifiers, open braces and
\* close braces apart, and treats every other kind alike.
Identifiers == {"a", "b"}
Identifier(text) == [kind |-> "Identifier", text |-> text]
OpenBrace == [kind |-> "OpenBrace"]
CloseBrace == [kind |-> "CloseBrace"]
OtherToken == [kind |-> "Other"]
LexToken == {Identifier(t) : t \in Identifiers} \cup {OpenBrace, CloseBrace, OtherToken}

\* LexError (super::lexer): opaque to the parser.
LexError == {[lexerr |-> "e"]}

\* What one call of Lexer::next can return before the end of the input.
LexItem == {Ok(t) : t \in LexToken} \cup {Err(e) : e \in LexError}

\* ParseEvent
BeginFile == [ev |-> "BeginFile"]
EndOfFile == [ev |-> "EndOfFile"]
NodeStart(name) == [ev |-> "NodeStart", name |-> name]
NodeEnd == [ev |-> "NodeEnd"]

\* ParseError
InvalidState == [er |-> "InvalidState"]
NotYetImplemented == [er |-> "NotYetImplemented"]
LexErrorWrap(e) == [er |-> "LexError", inner |-> e]
UnexpectedEndOfFile == [er |-> "UnexpectedEndOfFile"]
UnexpectedToken(tok) == [er |-> "UnexpectedToken", token |-> tok]

\* ParseContext
Basefile == [ctx |-> "Basefile"]
Node(has_comma) == [ctx |-> "Node", has_comma |-> has_comma]

\* Vec::pop and Vec::push on the context stack.
Pop(v) == IF v = <<>> THEN [vec |-> v, item |-> None]
          ELSE [vec |-> SubSeq(v, 1, Len(v) - 1), item |-> Some(v[Len(v)])]
Push(v, x) == Append(v, x)

----------------------------------------------------------------------------
\* Lexer::next: the next result of the token source, None at the end of the
\* input.  lexer.position is the lexer's own position; it is modelled by the
\* number of results read so far.  calls counts the calls of Lexer::next,
\* the one that finds the input exhausted included.
lexer_next(lx) ==
    IF lx.read < Len(input)
    THEN [lexer |-> [read |-> lx.read + 1, position |-> lx.read + 1,
                     calls |-> lx.calls + 1],
          item |-> Some(input[lx.read + 1])]
    ELSE [lexer |-> [lx EXCEPT !.calls = lx.calls + 1], item |-> None]

\* The parser object.
Self == [context |-> context, ended |-> ended, lexer |-> lexer]

\* Parser::parse
parse == [context |-> <<>>, ended |-> FALSE, lexer |-> [read |-> 0, position |-> 0, calls |-> 0]]

\* Mutant of yield_state: the event ends the stream, as an error does.
yield_state_ends(self, state) ==
    [self |-> [self EXCEPT !.ended = TRUE],
     ret |-> Some(Ok(<<state, self.lexer.position>>))]

\* Mutant of yield_state: EndOfFile is stamped with the position of the start
\* of the input instead of the lexer's current position.
yield_state_start_position(self, state) ==
    [self |-> self,
     ret |-> Some(Ok(<<state, IF state = EndOfFile THEN 0 ELSE self.lexer.position>>))]

\* Parser::yield_state
yield_state(self, state) ==
    [self |-> self, ret |-> Some(Ok(<<state, self.lexer.position>>))]


\* Mutant of yield_error: the error is returned but ended is not set.
yield_error_not_ended(self, error) ==
    [self |-> self, ret |-> Some(Err(<<error, self.lexer.position>>))]

\* Parser::yield_error
yield_error(self, error) ==
    [self |-> [self EXCEPT !.ended = TRUE],
     ret |-> Some(Err(<<error, self.lexer.position>>))]

\* Parser::lex_error
lex_error(self, error) == yield_error(self, LexErrorWrap(error))

\* Parser::has_comma (never called)
has_comma(self) ==
    LET p == Pop(self.context)
        ctx == p.item
        flag == IF ctx = None THEN FALSE
                ELSE IF ctx.val = Basefile THEN FALSE
                ELSE ctx.val.has_comma
    IN  [self |-> IF ctx # None
                  THEN [self EXCEPT !.context = Push(p.vec, ctx.val)]
                  ELSE [self EXCEPT !.context = p.vec],
         ret |-> flag]

\* Parser::set_comma
set_comma(self) ==
    LET p == Pop(self.context)
        pushable == IF p.item = None THEN None
                    ELSE IF p.item.val = Basefile THEN Some(Basefile)
                    ELSE Some(Node(TRUE))
    IN  IF pushable # None
        THEN [self EXCEPT !.context = Push(p.vec, pushable.val)]
        ELSE [self EXCEPT !.context = p.vec]

IsIdentifier(item) ==
    item # None /\ item.val.tag = "Ok" /\ item.val.val.kind = "Identifier"


\* Mutant of after_identifier: the NodeStart event loses the identifier's text.
after_identifier_loses_name(self, ident) ==
    LET l == lexer_next(self.lexer)
        s == [self EXCEPT !.lexer = l.lexer]
        next == l.item
    IN  IF next = None THEN yield_error(s, UnexpectedEndOfFile)
        ELSE IF next.val.tag = "Err" THEN yield_error(s, LexErrorWrap(next.val.val))
        ELSE IF next.val.val = OpenBrace
             THEN yield_state([s EXCEPT !.context = Push(s.context, Node(TRUE))],
                              NodeStart(""))
        ELSE yield_error(s, UnexpectedToken(next.val.val))

\* Mutant of after_identifier: the end of the input after an identifier is
\* taken for the end of the file.
after_identifier_eof_ends_file(self, ident) ==
    LET l == lexer_next(self.lexer)
        s == [self EXCEPT !.lexer = l.lexer]
        next == l.item
    IN  IF next = None THEN yield_state([s EXCEPT !.ended = TRUE], EndOfFile)
        ELSE IF next.val.tag = "Err" THEN yield_error(s, LexErrorWrap(next.val.val))
        ELSE IF next.val.val = OpenBrace
             THEN yield_state([s EXCEPT !.context = Push(s.context, Node(TRUE))],
                              NodeStart(ident))
        ELSE yield_error(s, UnexpectedToken(next.val.val))

\* Mutant of after_identifier: any token after the identifier opens the node.
after_identifier_any_token(self, ident) ==
    LET l == lexer_next(self.lexer)
        s == [self EXCEPT !.lexer = l.lexer]
        next == l.item
    IN  IF next = None THEN yield_error(s, UnexpectedEndOfFile)
        ELSE IF next.val.tag = "Err" THEN yield_error(s, LexErrorWrap(next.val.val))
        ELSE yield_state([s EXCEPT !.context = Push(s.context, Node(TRUE))],
                         NodeStart(ident))

\* Mutant of after_identifier: a new node starts with its flag false.
after_identifier_seed_false(self, ident) ==
    LET l == lexer_next(self.lexer)
        s == [self EXCEPT !.lexer = l.lexer]
        next == l.item
    IN  IF next = None THEN yield_error(s, UnexpectedEndOfFile)
        ELSE IF next.val.tag = "Err" THEN yield_error(s, LexErrorWrap(next.val.val))
        ELSE IF next.val.val = OpenBrace
             THEN yield_state([s EXCEPT !.context = Push(s.context, Node(FALSE))],
                              NodeStart(ident))
        ELSE yield_error(s, UnexpectedToken(next.val.val))

\* The match on the token that follows an identifier (both contexts).
after_identifier(self, ident) ==
    LET l == lexer_next(self.lexer)
        s == [self EXCEPT !.lexer = l.lexer]
        next == l.item
    IN  IF next = None THEN yield_error(s, UnexpectedEndOfFile)
        ELSE IF next.val.tag = "Err" THEN yield_error(s, LexErrorWrap(next.val.val))
        ELSE IF next.val.val = OpenBrace
             THEN yield_state([s EXCEPT !.context = Push(s.context, Node(TRUE))],
                              NodeStart(ident))
        ELSE yield_error(s, UnexpectedToken(next.val.val))


\* Mutant of parse_context_file: EndOfFile is emitted without setting ended.
parse_context_file_not_ended(self) ==
    LET l == lexer_next(self.lexer)
        s == [self EXCEPT !.lexer = l.lexer]
        next == l.item
    IN  IF IsIdentifier(next) THEN after_identifier(s, next.val.val.text)
        ELSE IF next # None /\ next.val.tag = "Ok"
             THEN yield_error(s, UnexpectedToken(next.val.val))
        ELSE IF next # None /\ next.val.tag = "Err"
             THEN lex_error(s, next.val.val)
        ELSE yield_state(s, EndOfFile)

\* Mutant of parse_context_file: a close brace at file level closes a node.
parse_context_file_close_pops(self) ==
    LET l == lexer_next(self.lexer)
        s == [self EXCEPT !.lexer = l.lexer]
        next == l.item
    IN  IF IsIdentifier(next) THEN after_identifier(s, next.val.val.text)
        ELSE IF next # None /\ next.val = Ok(CloseBrace)
             THEN yield_state([s EXCEPT !.context = Pop(s.context).vec], NodeEnd)
        ELSE IF next # None /\ next.val.tag = "Ok"
             THEN yield_error(s, UnexpectedToken(next.val.val))
        ELSE IF next # None /\ next.val.tag = "Err"
             THEN lex_error(s, next.val.val)
        ELSE yield_state([s EXCEPT !.ended = TRUE], EndOfFile)

\* Mutant of parse_context_file: the arm for a lex error is missing, so a lex
\* error falls through to the arm for the end of the input.
parse_context_file_no_lex_arm(self) ==
    LET l == lexer_next(self.lexer)
        s == [self EXCEPT !.lexer = l.lexer]
        next == l.item
    IN  IF IsIdentifier(next) THEN after_identifier(s, next.val.val.text)
        ELSE IF next # None /\ next.val.tag = "Ok"
             THEN yield_error(s, UnexpectedToken(next.val.val))
        ELSE yield_state([s EXCEPT !.ended = TRUE], EndOfFile)

\* Parser::parse_context_file
parse_context_file(self) ==
    LET l == lexer_next(self.lexer)
        s == [self EXCEPT !.lexer = l.lexer]
        next == l.item
    IN  IF IsIdentifier(next) THEN after_identifier(s, next.val.val.text)
        ELSE IF next # None /\ next.val.tag = "Ok"
             THEN yield_error(s, UnexpectedToken(next.val.val))
        ELSE IF next # None /\ next.val.tag = "Err"
             THEN lex_error(s, next.val.val)
        ELSE yield_state([s EXCEPT !.ended = TRUE], EndOfFile)


\* Mutant of parse_context_node: a close brace emits NodeEnd without popping.
parse_context_node_no_pop(self) ==
    LET l == lexer_next(self.lexer)
        s == [self EXCEPT !.lexer = l.lexer]
        next == l.item
    IN  IF next = None THEN yield_error(s, UnexpectedEndOfFile)
        ELSE IF next.val.tag = "Err" THEN yield_error(s, LexErrorWrap(next.val.val))
        ELSE IF next.val.val = CloseBrace THEN yield_state(s, NodeEnd)
        ELSE IF IsIdentifier(next)
             THEN after_identifier(set_comma(s), next.val.val.text)
        ELSE yield_error(s, NotYetImplemented)

\* Mutant of parse_context_node: the end of the input inside a node is taken
\* for the end of the file.
parse_context_node_eof_ends_file(self) ==
    LET l == lexer_next(self.lexer)
        s == [self EXCEPT !.lexer = l.lexer]
        next == l.item
    IN  IF next = None THEN yield_state([s EXCEPT !.ended = TRUE], EndOfFile)
        ELSE IF next.val.tag = "Err" THEN yield_error(s, LexErrorWrap(next.val.val))
        ELSE IF next.val.val = CloseBrace
             THEN yield_state([s EXCEPT !.context = Pop(s.context).vec], NodeEnd)
        ELSE IF IsIdentifier(next)
             THEN after_identifier(set_comma(s), next.val.val.text)
        ELSE yield_error(s, NotYetImplemented)

\* Mutant of parse_context_node: an unhandled token is reported as
\* UnexpectedToken, as at file level.
parse_context_node_unexpected(self) ==
    LET l == lexer_next(self.lexer)
        s == [self EXCEPT !.lexer = l.lexer]
        next == l.item
    IN  IF next = None THEN yield_error(s, UnexpectedEndOfFile)
        ELSE IF next.val.tag = "Err" THEN yield_error(s, LexErrorWrap(next.val.val))
        ELSE IF next.val.val = CloseBrace
             THEN yield_state([s EXCEPT !.context = Pop(s.context).vec], NodeEnd)
        ELSE IF IsIdentifier(next)
             THEN after_identifier(set_comma(s), next.val.val.text)
        ELSE yield_error(s, UnexpectedToken(next.val.val))

\* Mutant of parse_context_node: after a close brace one more token is read.
parse_context_node_reads_ahead(self) ==
    LET l == lexer_next(self.lexer)
        s == [self EXCEPT !.lexer = l.lexer]
        next == l.item
    IN  IF next = None THEN yield_error(s, UnexpectedEndOfFile)
        ELSE IF next.val.tag = "Err" THEN yield_error(s, LexErrorWrap(next.val.val))
        ELSE IF next.val.val = CloseBrace
             THEN yield_state([s EXCEPT !.context = Pop(s.context).vec,
                                        !.lexer = lexer_next(s.lexer).lexer], NodeEnd)
        ELSE IF IsIdentifier(next)
             THEN after_identifier(set_comma(s), next.val.val.text)
        ELSE yield_error(s, NotYetImplemented)

\* Parser::parse_context_node
parse_context_node(self) ==
    LET l == lexer_next(self.lexer)
        s == [self EXCEPT !.lexer = l.lexer]
        next == l.item
    IN  IF next = None THEN yield_error(s, UnexpectedEndOfFile)
        ELSE IF next.val.tag = "Err" THEN yield_error(s, LexErrorWrap(next.val.val))
        ELSE IF next.val.val = CloseBrace
             THEN yield_state([s EXCEPT !.context = Pop(s.context).vec], NodeEnd)
        ELSE IF IsIdentifier(next)
             THEN after_identifier(set_comma(s), next.val.val.text)
        ELSE yield_error(s, NotYetImplemented)


\* Mutant of next: the first pull emits BeginFile without pushing Basefile.
next_no_basefile(self) ==
    IF self.ended THEN [self |-> self, ret |-> None]
    ELSE LET p == Pop(self.context)
             current_state == p.item
             s == [self EXCEPT !.context = p.vec]
         IN  IF current_state = None
             THEN yield_state(s, BeginFile)
             ELSE IF current_state.val = Basefile
             THEN parse_context_file([s EXCEPT !.context = Push(s.context, current_state.val)])
             ELSE parse_context_node([s EXCEPT !.context = Push(s.context, current_state.val)])

\* Mutant of next: the Basefile context popped for the dispatch is not pushed
\* back.
next_basefile_not_restored(self) ==
    IF self.ended THEN [self |-> self, ret |-> None]
    ELSE LET p == Pop(self.context)
             current_state == p.item
             s == [self EXCEPT !.context = p.vec]
         IN  IF current_state = None
             THEN yield_state([s EXCEPT !.context = Push(s.context, Basefile)], BeginFile)
             ELSE IF current_state.val = Basefile
             THEN parse_context_file(s)
             ELSE parse_context_node([s EXCEPT !.context = Push(s.context, current_state.val)])

\* <Parser as Iterator>::next
next(self) ==
    IF self.ended THEN [self |-> self, ret |-> None]
    ELSE LET p == Pop(self.context)
             current_state == p.item
             s == [self EXCEPT !.context = p.vec]
         IN  IF current_state = None
             THEN yield_state([s EXCEPT !.context = Push(s.context, Basefile)], BeginFile)
             ELSE IF current_state.val = Basefile
             THEN parse_context_file([s EXCEPT !.context = Push(s.context, current_state.val)])
             ELSE parse_context_node([s EXCEPT !.context = Push(s.context, current_state.val)])

----------------------------------------------------------------------------
\* All token sequences the lexer may be given.
Inputs == UNION {[1..n -> LexItem] : n \in 0..MaxLen}

NonePulls == Cardinality({i \in DOMAIN stream : stream[i] = None})

Init ==
    /\ input \in Inputs
    /\ context = parse.context
    /\ ended = parse.ended
    /\ lexer = parse.lexer
    /\ stream = <<>>

\* One pull by the consumer: a call of Parser::next.
Pull ==
    /\ ended => NonePulls < MaxNonePulls
    /\ LET r == next(Self)
       IN  /\ context' = r.self.context
           /\ ended' = r.self.ended
           /\ lexer' = r.self.lexer
           /\ stream' = Append(stream, r.ret)
    /\ UNCHANGED input

Next == Pull

Spec == Init /\ [][Next]_vars

----------------------------------------------------------------------------
\* Reading the history of returned values.
IsOk(r) == r # None /\ r.val.tag = "Ok"
IsErr(r) == r # None /\ r.val.tag = "Err"
IsEvent(r, e) == IsOk(r) /\ r.val.val[1] = e
IsError(r, e) == IsErr(r) /\ r.val.val[1] = e
IsNodeStart(r) == IsOk(r) /\ r.val.val[1].ev = "NodeStart"
IsTerminal(r) == IsErr(r) \/ IsEvent(r, EndOfFile)

\* The results of the stream: what was returned other than None.
Results == SelectSeq(stream, LAMBDA r : r # None)
LastRet == stream[Len(stream)]

\* Nesting depth after the first k returned values:
\* NodeStart events minus NodeEnd events.
Depth(k) ==
    Cardinality({i \in 1..k : IsNodeStart(stream[i])})
    - Cardinality({i \in 1..k : IsEvent(stream[i], NodeEnd)})

\* The k-th result the lexer will return from now on.
Peek(k) == IF lexer.read + k <= Len(input) THEN Some(input[lexer.read + k]) ELSE None
PeekToken(k) == Peek(k).val.val
PeekIsToken(k) == Peek(k) # None /\ Peek(k).val.tag = "Ok"

AtFile == ~ended /\ context # <<>> /\ context[Len(context)] = Basefile
InNode == ~ended /\ context # <<>> /\ context[Len(context)].ctx = "Node"

\* The input grammar:  file := node*,  node := IDENT '{' node* '}'.
RECURSIVE IsFile(_), IsNode(_)
IsFile(s) ==
    \/ s = <<>>
    \/ \E k \in 3..Len(s) : IsNode(SubSeq(s, 1, k)) /\ IsFile(SubSeq(s, k + 1, Len(s)))
IsNode(s) ==
    /\ Len(s) >= 3
    /\ s[1].tag = "Ok" /\ s[1].val.kind = "Identifier"
    /\ s[2] = Ok(OpenBrace)
    /\ s[Len(s)] = Ok(CloseBrace)
    /\ IsFile(SubSeq(s, 3, Len(s) - 1))

WellFormed == IsFile(input)

\* The events a well-formed token sequence stands for, token by token.
RECURSIVE EventsOf(_)
EventsOf(s) ==
    IF s = <<>> THEN <<>>
    ELSE LET t == Head(s).val
         IN  (IF t.kind = "Identifier" THEN <<NodeStart(t.text)>>
              ELSE IF t = CloseBrace THEN <<NodeEnd>>
              ELSE <<>>) \o EventsOf(Tail(s))

\* The events of the results (defined when every result is Ok).
ResultEvents == [i \in 1..Len(Results) |-> Results[i].val.val[1]]

----------------------------------------------------------------------------
\* C1: once next has returned an error or EndOfFile, every later call
\* returns None; so the stream holds at most one error and at most one
\* EndOfFile, and a terminal result is the last result.
ExhaustionIsPermanent ==
    /\ \A i \in DOMAIN stream :
         IsTerminal(stream[i]) => \A j \in (i + 1)..Len(stream) : stream[j] = None
    /\ Cardinality({i \in DOMAIN stream : IsErr(stream[i])}) <= 1
    /\ Cardinality({i \in DOMAIN stream : IsEvent(stream[i], EndOfFile)}) <= 1
    /\ LET rs == Results
       IN  \A i \in DOMAIN rs : IsTerminal(rs[i]) => i = Len(rs)

\* A lex error ended the stream inside a node and one more pull was made.
ExhaustionIsPermanentWitness ==
    /\ Len(stream) >= 4
    /\ \E e \in LexError : IsError(stream[Len(stream) - 1], LexErrorWrap(e))
    /\ LastRet = None

\* C2: for a well-formed token sequence, pulling until exhaustion yields only
\* Ok results, BeginFile first, EndOfFile last, and in between NodeStart and
\* NodeEnd events that form a balanced-parenthesis sequence.
WellFormedIsBalanced ==
    (ended /\ WellFormed) =>
        /\ \A i \in DOMAIN stream : ~IsErr(stream[i])
        /\ Len(Results) >= 2
        /\ IsEvent(Results[1], BeginFile)
        /\ IsEvent(Results[Len(Results)], EndOfFile)
        /\ \A i \in 2..(Len(Results) - 1) :
             IsNodeStart(Results[i]) \/ IsEvent(Results[i], NodeEnd)
        /\ \A k \in 0..Len(stream) : Depth(k) >= 0
        /\ Depth(Len(stream)) = 0

\* A well-formed input with a nested node was parsed to the end.
WellFormedIsBalancedWitness ==
    /\ ended /\ WellFormed
    /\ \E k \in 0..Len(stream) : Depth(k) = 2

\* C3: for a well-formed token sequence the events between BeginFile and
\* EndOfFile are, in input order, a NodeStart carrying the identifier's text
\* for each IDENT '{' and a NodeEnd for each '}'.
EventsFollowInput ==
    (ended /\ WellFormed) =>
        /\ \A i \in DOMAIN Results : IsOk(Results[i])
        /\ ResultEvents = <<BeginFile>> \o EventsOf(input) \o <<EndOfFile>>

\* Two sibling nodes with different names, with no separator, were parsed.
EventsFollowInputWitness ==
    /\ ended /\ WellFormed
    /\ Len(input) >= 6
    /\ input[1] = Ok(Identifier("a")) /\ input[3] = Ok(CloseBrace)
    /\ input[4] = Ok(Identifier("b"))

\* C4: in every prefix of the result stream the nesting depth is not
\* negative, and it is 0 when EndOfFile is emitted.
DepthNeverNegative ==
    /\ \A k \in 0..Len(stream) : Depth(k) >= 0
    /\ \A k \in DOMAIN stream : IsEvent(stream[k], EndOfFile) => Depth(k) = 0

\* EndOfFile was emitted after nodes were opened and closed.
DepthNeverNegativeWitness ==
    /\ \E k \in DOMAIN stream : IsEvent(stream[k], EndOfFile)
    /\ \E k \in DOMAIN stream : Depth(k) = 2

\* C5: EndOfFile is emitted only by a pull made with the stack exactly
\* [Basefile] whose first read finds the token source exhausted; that pull
\* sets ended, and EndOfFile was not emitted before.
EndOfFileOnlyAtBasefile ==
    [][IsEvent(stream'[Len(stream')], EndOfFile) =>
         /\ context = <<Basefile>>
         /\ Peek(1) = None
         /\ lexer'.read = lexer.read
         /\ ended'
         /\ \A i \in DOMAIN stream : ~IsEvent(stream[i], EndOfFile)]_vars

\* EndOfFile was emitted after a node was closed.
EndOfFileOnlyAtBasefileWitness ==
    /\ stream # <<>> /\ IsEvent(LastRet, EndOfFile)
    /\ input # <<>>

\* C6: the first pull returns Ok(BeginFile) without reading a token and
\* pushes Basefile on the empty stack; no later pull returns BeginFile.
FirstPullBeginsFile ==
    [][/\ stream = <<>> =>
            /\ context = <<>>
            /\ IsEvent(stream'[1], BeginFile)
            /\ lexer' = lexer
            /\ context' = <<Basefile>>
            /\ ~ended'
       /\ stream # <<>> => ~IsEvent(stream'[Len(stream')], BeginFile)]_vars

\* The first pull was made on an input that starts with a lex error, and a
\* second pull followed.
FirstPullBeginsFileWitness ==
    /\ Len(stream) = 2
    /\ input # <<>> /\ input[1].tag = "Err"
    /\ IsEvent(stream[1], BeginFile)

\* C7: a pull in a Node context that finds the token source exhausted, as the
\* first token or as the token after an identifier, returns
\* Err(UnexpectedEndOfFile) and ends the stream; EndOfFile is never emitted
\* while a Node context is open.
NodeAtEndOfInput ==
    [][/\ (InNode /\ (Peek(1) = None \/ (IsIdentifier(Peek(1)) /\ Peek(2) = None))) =>
            /\ IsError(stream'[Len(stream')], UnexpectedEndOfFile)
            /\ ended'
       /\ IsEvent(stream'[Len(stream')], EndOfFile) =>
            \A i \in DOMAIN context : context[i].ctx # "Node"]_vars

\* Inside a node the input ended right after an identifier.
NodeAtEndOfInputWitness ==
    /\ ended /\ Len(context) >= 2
    /\ IsError(LastRet, UnexpectedEndOfFile)
    /\ IsIdentifier(Some(input[Len(input)]))
    /\ lexer.read = Len(input)

\* C8: at file level a token that is not an identifier gives
\* Err(UnexpectedToken) carrying that token, sets ended and leaves Basefile
\* on the stack.
FileRejectsNonIdentifier ==
    [][(AtFile /\ PeekIsToken(1) /\ ~IsIdentifier(Peek(1))) =>
            /\ IsError(stream'[Len(stream')], UnexpectedToken(PeekToken(1)))
            /\ ended'
            /\ context' = context
            /\ context' = <<Basefile>>]_vars

\* A close brace arrived at file level after a node had been closed.
FileRejectsNonIdentifierWitness ==
    /\ ended /\ context = <<Basefile>>
    /\ IsError(LastRet, UnexpectedToken(CloseBrace))
    /\ \E k \in DOMAIN stream : IsEvent(stream[k], NodeEnd)

\* C9: in both contexts, an identifier that is not followed by an open brace
\* emits no NodeStart and pushes no context: the result is
\* Err(UnexpectedToken) with the following token, Err(LexError) for a lex
\* error, Err(UnexpectedEndOfFile) at the end of the input; the stream ends.
IdentifierNeedsOpenBrace ==
    [][((AtFile \/ InNode) /\ IsIdentifier(Peek(1)) /\ Peek(2) # Some(Ok(OpenBrace))) =>
            /\ Len(context') = Len(context)
            /\ ~IsNodeStart(stream'[Len(stream')])
            /\ ended'
            /\ IF Peek(2) = None
               THEN IsError(stream'[Len(stream')], UnexpectedEndOfFile)
               ELSE IF Peek(2).val.tag = "Err"
               THEN IsError(stream'[Len(stream')], LexErrorWrap(Peek(2).val.val))
               ELSE IsError(stream'[Len(stream')], UnexpectedToken(PeekToken(2)))]_vars

\* Inside a node an identifier was followed by another identifier.
IdentifierNeedsOpenBraceWitness ==
    /\ ended /\ Len(context) = 2
    /\ \E t \in Identifiers : IsError(LastRet, UnexpectedToken(Identifier(t)))

\* C10: in a Node context a first token that is neither a close brace nor an
\* identifier gives Err(NotYetImplemented), not UnexpectedToken, and the
\* stream ends.
NodeBodyNotYetImplemented ==
    [][(InNode /\ PeekIsToken(1) /\ PeekToken(1) # CloseBrace /\ ~IsIdentifier(Peek(1))) =>
            /\ IsError(stream'[Len(stream')], NotYetImplemented)
            /\ ended']_vars

\* An open brace arrived as the first token of a node body.
NodeBodyNotYetImplementedWitness ==
    /\ ended /\ Len(context) >= 2
    /\ IsError(LastRet, NotYetImplemented)
    /\ input[lexer.read] = Ok(OpenBrace)

\* C11: when the token source returns a lex error to a read of the parser
\* (first or second read of a pull, file or Node context), that pull returns
\* Err(LexError) wrapping that error and sets ended; the error is the last
\* thing read, and nothing is read once the parser has ended.
PeekIsLexError(k) == Peek(k) # None /\ Peek(k).val.tag = "Err"

LexErrorIsReported ==
    [][/\ \A k \in (lexer.read + 1)..lexer'.read :
            input[k].tag = "Err" =>
                /\ IsError(stream'[Len(stream')], LexErrorWrap(input[k].val))
                /\ ended'
                /\ k = lexer'.read
       /\ ((AtFile \/ InNode)
           /\ (PeekIsLexError(1) \/ (IsIdentifier(Peek(1)) /\ PeekIsLexError(2)))) =>
                /\ \E e \in LexError : IsError(stream'[Len(stream')], LexErrorWrap(e))
                /\ ended'
       /\ ended => lexer' = lexer]_vars

\* Inside a node a lex error came right after an identifier, and a further
\* pull was made.
LexErrorIsReportedWitness ==
    /\ ended /\ Len(context) >= 2 /\ Len(stream) >= 2
    /\ LastRet = None
    /\ \E e \in LexError : IsError(stream[Len(stream) - 1], LexErrorWrap(e))
    /\ lexer.read >= 2 /\ IsIdentifier(Some(input[lexer.read - 1]))

\* C12: a pull made while ended is false returns exactly one result, never
\* None; ended becomes true only on a pull that returns an error or
\* EndOfFile, never on one that returns BeginFile, NodeStart or NodeEnd.
OneResultPerPull ==
    [][/\ Len(stream') = Len(stream) + 1
       /\ ~ended => (IsOk(stream'[Len(stream')]) \/ IsErr(stream'[Len(stream')]))
       /\ (~ended /\ ended') => IsTerminal(stream'[Len(stream')])
       /\ (\/ IsEvent(stream'[Len(stream')], BeginFile)
           \/ IsNodeStart(stream'[Len(stream')])
           \/ IsEvent(stream'[Len(stream')], NodeEnd)) => ~ended']_vars

\* A node was closed and the parser goes on.
OneResultPerPullWitness ==
    /\ stream # <<>> /\ IsEvent(LastRet, NodeEnd)
    /\ ~ended /\ Len(context) = 2

\* C13: for a well-formed input the positions attached to successive results
\* do not decrease (the lexer's position being the number of results read).
PositionOf(r) == r.val.val[2]

PositionsNonDecreasing ==
    WellFormed =>
        LET rs == Results
        IN  \A i, j \in DOMAIN rs : i < j => PositionOf(rs[i]) <= PositionOf(rs[j])

\* A well-formed input of six tokens was parsed to the end: the positions
\* grow, and the last two results carry the same position.
PositionsNonDecreasingWitness ==
    /\ ended /\ WellFormed /\ Len(input) = 6
    /\ Len(Results) >= 3
    /\ PositionOf(Results[Len(Results)]) = 6
    /\ PositionOf(Results[Len(Results) - 1]) = 6
    /\ PositionOf(Results[2]) = 2

\* C14: after the first pull the context stack holds exactly one Basefile
\* entry, at its base, with only Node entries above it; nothing removes it.
BasefileAtBase ==
    stream # <<>> =>
        /\ context # <<>>
        /\ context[1] = Basefile
        /\ \A i \in 2..Len(context) : context[i].ctx = "Node"

\* An error ended the stream two nodes deep.
BasefileAtBaseWitness ==
    /\ ended /\ Len(context) = 3
    /\ IsErr(Results[Len(Results)])

\* C15 as stated: in every reachable state the length of the stack is the
\* nesting depth plus 1.  (Violated before the first pull: the stack is
\* empty.)
StackIsDepthPlusOneAlways ==
    Len(context) = Depth(Len(stream)) + 1

\* C15 amended: in every reachable state after the first pull the length of
\* the stack is the nesting depth plus 1.
StackIsDepthPlusOne ==
    stream # <<>> => Len(context) = Depth(Len(stream)) + 1

\* An inner node was closed inside an outer node that is still open.
StackIsDepthPlusOneWitness ==
    /\ stream # <<>> /\ IsEvent(LastRet, NodeEnd)
    /\ Depth(Len(stream)) = 1 /\ Len(context) = 2

\* C16: a pull calls the lexer at most twice: not at all for BeginFile or
\* None, once for NodeEnd (the close brace), twice for NodeStart (identifier
\* and open brace), once for EndOfFile (the call that finds the source
\* exhausted); what a pull reads is exactly what its result stands for.
ReadsPerPull ==
    [][LET n == lexer'.calls - lexer.calls
           r == stream'[Len(stream')]
       IN  /\ n <= 2
           /\ lexer'.read <= lexer.read + n
           /\ (r = None \/ IsEvent(r, BeginFile)) => (n = 0 /\ lexer'.read = lexer.read)
           /\ IsEvent(r, NodeEnd) =>
                /\ n = 1 /\ lexer'.read = lexer.read + 1
                /\ Peek(1) = Some(Ok(CloseBrace))
           /\ IsNodeStart(r) =>
                /\ n = 2 /\ lexer'.read = lexer.read + 2
                /\ Peek(1) = Some(Ok(Identifier(r.val.val[1].name)))
                /\ Peek(2) = Some(Ok(OpenBrace))
           /\ IsEvent(r, EndOfFile) =>
                /\ n = 1 /\ lexer'.read = lexer.read
                /\ Peek(1) = None]_vars

\* EndOfFile was returned after a node: one call more than results read.
ReadsPerPullWitness ==
    /\ stream # <<>> /\ IsEvent(LastRet, EndOfFile)
    /\ lexer.read >= 3 /\ lexer.calls = lexer.read + 1

\* C17: for a token sequence without lex errors the stream contains
\* EndOfFile iff the sequence is in the language; otherwise it ends with
\* exactly one error, after Ok events only, raised by the first pull whose
\* tokens cannot be continued to a sequence of the language.
NoLexErrors == \A i \in DOMAIN input : input[i].tag = "Ok"

\* s is the beginning of some sequence of the language: it can be completed
\* by an open brace, if it ends with an identifier, and close braces.
Viable(s) ==
    \E o \in {<<>>, <<Ok(OpenBrace)>>}, d \in 0..Len(s) :
        IsFile(s \o o \o [i \in 1..d |-> Ok(CloseBrace)])

GrammarDecides ==
    (ended /\ NoLexErrors) =>
        /\ (\E i \in DOMAIN stream : IsEvent(stream[i], EndOfFile)) <=> WellFormed
        /\ ~WellFormed =>
             LET rs == Results
                 n == Len(rs)
             IN  /\ n >= 2
                 /\ IsErr(rs[n])
                 /\ \A i \in 1..(n - 1) : IsOk(rs[i])
                 /\ Viable(SubSeq(input, 1, PositionOf(rs[n - 1])))
                 /\ \/ ~Viable(SubSeq(input, 1, lexer.read))
                    \/ /\ lexer.read = Len(input)
                       /\ IsError(rs[n], UnexpectedEndOfFile)

\* A sequence outside the language was rejected before its end, after
\* some nodes had been reported.
GrammarDecidesWitness ==
    /\ ended /\ NoLexErrors /\ ~WellFormed
    /\ Len(Results) >= 4
    /\ lexer.read < Len(input)

\* C18: no result is Err(InvalidState), and the stack is not empty when a
\* file-level or node-level rule is applied (any pull after the first).
NoInvalidState ==
    /\ \A i \in DOMAIN stream : ~IsError(stream[i], InvalidState)
    /\ stream # <<>> => context # <<>>

\* Rules of both levels were applied, an error ended the stream and a
\* further pull was made.
NoInvalidStateWitness ==
    /\ NonePulls >= 1
    /\ Len(Results) >= 3
    /\ IsErr(Results[Len(Results)])

\* C19: every pull made while not ended returns a result; every pull after
\* the first that does not end the stream reads at least one token; so a
\* source of n tokens yields at most n + 2 results, and then None.
PullsAreBounded ==
    [][/\ ~ended => stream'[Len(stream')] # None
       /\ (stream # <<>> /\ ~ended /\ ~ended') => lexer'.read > lexer.read
       /\ Len(Results') <= Len(input) + 2
       /\ ended => stream'[Len(stream')] = None]_vars

\* A long input was read to its end and the parser ended.
PullsAreBoundedWitness ==
    /\ ended /\ Len(input) >= 5
    /\ lexer.read = Len(input)
    /\ Len(Results) >= 5
    /\ NonePulls >= 1

\* C20: every Node entry of the stack carries the flag true, so set_comma
\* leaves the stack as it is, and the outcome of a pull does not depend on
\* the flags.
FlagsCleared ==
    [Self EXCEPT !.context =
        [i \in DOMAIN context |->
            IF context[i].ctx = "Node" THEN Node(FALSE) ELSE context[i]]]

FlagIsAlwaysTrue ==
    /\ \A i \in DOMAIN context : context[i].ctx = "Node" => context[i] = Node(TRUE)
    /\ set_comma(Self).context = context
    /\ has_comma(Self).self = Self
    /\ InNode => has_comma(Self).ret = TRUE
    /\ LET cleared == next(FlagsCleared)
           kept == next(Self)
       IN  /\ cleared.ret = kept.ret
           /\ cleared.self.ended = kept.self.ended
           /\ Len(cleared.self.context) = Len(kept.self.context)

\* A node was opened inside a node: set_comma has been called.
FlagIsAlwaysTrueWitness ==
    /\ ~ended /\ Len(context) = 3
    /\ IsNodeStart(LastRet)

====
